---- MODULE Spec2Model ----
(***************************************************************************)
(* Authentication and session lifecycle of the salon backend:             *)
(* AuthService (register, login, refreshTokens, logout, OAuth, OTP        *)
(* facade, registerWithPhone), SmsOtpService and OAuthService, over the   *)
(* relational store (User, CustomerProfile, Salon, SalonMember, Staff,    *)
(* RefreshToken, OTPVerification).                                        *)
(***************************************************************************)
EXTENDS Integers, Sequences, FiniteSets, TLC

\* ---------------------------------------------------------------- bounds
MaxUsers == 2
MaxIssue == 3
MaxTicks == 2
MaxVerify == 6

\* ------------------------------------------------------ program constants
RefreshTtl == 604800
OtpCooldown == 60
OtpTtl == 600
OtpMaxAttempts == 4

\* ------------------------------------------------------------ input sets
Null == "null"
Emails == {"a@x.com", "+1555@phone.local"}
Phones == {"+1555"}
Passwords == {"Abc123!@", "wrong"}
UserRole == {"CUSTOMER", "SALON_OWNER", "STAFF", "ADMIN"}
RoleInputs == UserRole \cup {"OTHER"}
ProviderIds == {"sub1"}
Avatars == {Null, "pic"}
Purposes == {"registration"}
Codes == {"111111", "222222"}
SessionTicks == {1, RefreshTtl}
OtpTicks == {OtpCooldown + 1, OtpTtl}

VARIABLES users, profiles, salons, members, staff, tokens, otps,
          now, ticks, nextId, last, procs, otpCalls, issued, revoked, verifiedPhones

stores == <<users, profiles, salons, members, staff, tokens>>
vars == <<users, profiles, salons, members, staff, tokens, otps,
          now, ticks, nextId, last, procs, otpCalls, issued, revoked, verifiedPhones>>

\* ------------------------------------------------------------- JWT model
\* A signed refresh token is determined by its claims {sub, email, role,
\* iat, exp = iat + ttl} and the secret: equal claims give equal strings.
NoToken == [sub |-> 0, email |-> Null, role |-> Null, iat |-> 0, sig |-> "none"]
Forged == [sub |-> 1, email |-> "a@x.com", role |-> "ADMIN", iat |-> 0, sig |-> "bad"]

signAsync(user, t) ==
    [sub |-> user.id, email |-> user.email, role |-> user.role, iat |-> t, sig |-> "ok"]

generateTokens(user) == signAsync(user, now)

jwtVerify(t) == t.sig = "ok" /\ now < t.iat + RefreshTtl

\* bcrypt: hash and compare
hashPassword(p) == <<"bcrypt", p>>
NoPassword == <<"bcrypt", Null>>
bcryptCompare(p, h) == h = <<"bcrypt", p>>

PhoneEmail(phone) == phone \o "@phone.local"

\* ---------------------------------------------------------------- errors
Ok == [err |-> "none", msg |-> ""]
Err(e, m) == [err |-> e, msg |-> m]

\* The typed errors of the interface, by the exception class that carries them.
AuthError == "UnauthorizedException"
ConflictError == "ConflictException"
PermissionError == "ForbiddenException"
ValidationError == "BadRequestException"

\* ------------------------------------------------------------ last reply
\* The request just served and what it returned.
Call(op, req) == [op |-> op, req |-> req]

Reply(call, e, tok, uid, sms) ==
    /\ last' = [op |-> call.op, req |-> call.req, err |-> e.err, msg |-> e.msg,
                token |-> tok, uid |-> uid, sms |-> sms]
    /\ issued' = IF tok = NoToken THEN issued ELSE issued \cup {tok}

\* No request has been served since the last step of the environment.
NoCall ==
    [op |-> "none", req |-> <<>>, err |-> "none", msg |-> "", token |-> NoToken,
     uid |-> 0, sms |-> Null]

\* ----------------------------------------------------------------- store
UserIds == {u.id : u \in users}

UserById(id) == CHOOSE u \in users : u.id = id

NewUser(email, phone, password, role, phoneVerified, emailVerified, googleId, appleId, avatar) ==
    [id |-> Cardinality(users) + 1, email |-> email, phone |-> phone,
     password |-> password, role |-> role, isActive |-> TRUE,
     isPhoneVerified |-> phoneVerified, isEmailVerified |-> emailVerified,
     googleId |-> googleId, appleId |-> appleId, avatar |-> avatar]

\* The unique constraints of the User table: email, phone, googleId, appleId.
UserUniqueViolation(user, others) ==
    \E u \in others :
        \/ u.email = user.email
        \/ (user.phone # Null /\ u.phone = user.phone)
        \/ (user.googleId # Null /\ u.googleId = user.googleId)
        \/ (user.appleId # Null /\ u.appleId = user.appleId)

Range(seq) == {seq[i] : i \in DOMAIN seq}

\* prisma.$transaction: the tables written. A step that throws rolls back
\* every write of the transaction.
TransactionNoRollback(steps, failed) ==
    IF failed \in Range(steps)
    THEN {steps[i] : i \in {j \in DOMAIN steps : \A k \in 1..j : steps[k] # failed}}
    ELSE Range(steps)

Transaction(steps, failed) ==
    IF failed \in Range(steps) THEN {} ELSE Range(steps)

\* prisma.refreshToken.create: token is @unique.
TokenRow(userId, token) ==
    [id |-> nextId, userId |-> userId, token |-> token, expiresAt |-> now + RefreshTtl]

TokenUniqueViolation(token, rows) == \E r \in rows : r.token = token

Init ==
    /\ users = {}
    /\ profiles = {}
    /\ salons = {}
    /\ members = {}
    /\ staff = {}
    /\ tokens = {}
    /\ otps = {}
    /\ now = 0
    /\ ticks = 0
    /\ nextId = 1
    /\ last = NoCall
    /\ procs = <<>>
    /\ otpCalls = [k \in {} |-> 0]
    /\ issued = {}
    /\ revoked = {}
    /\ verifiedPhones = {}

\* The clock advances by d seconds.
Tick(d) ==
    /\ ticks < MaxTicks
    /\ now' = now + d
    /\ ticks' = ticks + 1
    /\ last' = NoCall
    /\ UNCHANGED <<users, profiles, salons, members, staff, tokens, otps,
                   nextId, procs, otpCalls, issued, revoked, verifiedPhones>>

\* An administrator clears a user's active flag (soft deactivation).
Deactivate(id) ==
    /\ \E u \in users : u.id = id /\ u.isActive
    /\ users' = {IF u.id = id THEN [u EXCEPT !.isActive = FALSE] ELSE u : u \in users}
    /\ last' = NoCall
    /\ UNCHANGED <<profiles, salons, members, staff, tokens, otps,
                   now, ticks, nextId, procs, otpCalls, issued, revoked, verifiedPhones>>

\* ------------------------------------------------------ AuthService.register
existingUserEmailOnly(email, phone) ==
    {u \in users : u.email = email}

existingUser(email, phone) ==
    {u \in users : u.email = email \/ (phone # Null /\ u.phone = phone)}

validateRegistrationRulesStaffAllowed(role, salonData) ==
    CASE role \in {"CUSTOMER", "STAFF"} -> Ok
      [] role = "SALON_OWNER" ->
            IF salonData THEN Ok
            ELSE Err("BadRequestException", "Salon information is required for salon owner registration")
      [] role = "ADMIN" ->
            Err("ForbiddenException", "Admin accounts must be created manually")
      [] OTHER -> Err("BadRequestException", "Invalid user role")

validateRegistrationRulesOwnerFree(role, salonData) ==
    CASE role \in {"CUSTOMER", "SALON_OWNER"} -> Ok
      [] role = "STAFF" ->
            Err("ForbiddenException", "Staff accounts must be created by salon owners")
      [] role = "ADMIN" ->
            Err("ForbiddenException", "Admin accounts must be created manually")
      [] OTHER -> Err("BadRequestException", "Invalid user role")

validateRegistrationRules(role, salonData) ==
    CASE role = "CUSTOMER" -> Ok
      [] role = "SALON_OWNER" ->
            IF salonData THEN Ok
            ELSE Err("BadRequestException", "Salon information is required for salon owner registration")
      [] role = "STAFF" ->
            Err("ForbiddenException", "Staff accounts must be created by salon owners")
      [] role = "ADMIN" ->
            Err("ForbiddenException", "Admin accounts must be created manually")
      [] OTHER -> Err("BadRequestException", "Invalid user role")

registerStepsNoProfile(role, salonData) ==
    <<"user">>
    \o (IF role = "SALON_OWNER" /\ salonData THEN <<"salon", "member", "staff">> ELSE <<>>)

registerSteps(role, salonData) ==
    <<"user">>
    \o (IF role = "CUSTOMER" THEN <<"profile">> ELSE <<>>)
    \o (IF role = "SALON_OWNER" /\ salonData THEN <<"salon", "member", "staff">> ELSE <<>>)

\* The rows a committed set of steps leaves in the store.
Commit(done, user) ==
    LET sid == Cardinality(salons) + 1 IN
    /\ users' = IF "user" \in done THEN users \cup {user} ELSE users
    /\ profiles' = IF "profile" \in done THEN profiles \cup {user.id} ELSE profiles
    /\ salons' = IF "salon" \in done THEN salons \cup {sid} ELSE salons
    /\ members' = IF "member" \in done
                  THEN members \cup {[userId |-> user.id, salonId |-> sid, role |-> "OWNER"]}
                  ELSE members
    /\ staff' = IF "staff" \in done
                THEN staff \cup {[userId |-> user.id, salonId |-> sid, role |-> "OWNER"]}
                ELSE staff

\* generateTokens + saveRefreshToken after a committed registration; fail is
\* "sign" or "save" when the signer or the store throws.
IssueAfterCreate(op, user, fail, failure) ==
    LET tok == generateTokens(user) IN
    IF fail = "sign" \/ fail = "save" \/ TokenUniqueViolation(tok, tokens)
    THEN /\ Reply(op, failure, NoToken, user.id, Null)
         /\ UNCHANGED <<tokens, nextId>>
    ELSE /\ tokens' = tokens \cup {TokenRow(user.id, tok)}
         /\ nextId' = nextId + 1
         /\ Reply(op, Ok, tok, user.id, Null)

\* The register request as the claims read it back: salonData is read only
\* for role SALON_OWNER (validateRegistrationRules and the transaction).
RegisterCall(email, phone, role, salonData) ==
    Call("register", <<email, phone, role, role = "SALON_OWNER" /\ salonData>>)

register(email, password, phone, role, salonData, fail) ==
    /\ UNCHANGED <<otps, now, ticks, procs, otpCalls, revoked, verifiedPhones>>
    /\ IF existingUser(email, phone) # {}
       THEN /\ Reply(RegisterCall(email, phone, role, salonData), Err("ConflictException", "User with this email or phone already exists"), NoToken, 0, Null)
            /\ UNCHANGED <<stores, nextId>>
       ELSE IF validateRegistrationRules(role, salonData) # Ok
       THEN /\ Reply(RegisterCall(email, phone, role, salonData), validateRegistrationRules(role, salonData), NoToken, 0, Null)
            /\ UNCHANGED <<stores, nextId>>
       ELSE LET user == NewUser(email, phone, hashPassword(password), role, FALSE, FALSE, Null, Null, Null)
                steps == registerSteps(role, salonData)
                failed == IF UserUniqueViolation(user, users) THEN "user" ELSE fail
                done == Transaction(steps, failed)
                failure == Err("BadRequestException", "Registration failed. Please try again.")
            IN /\ Cardinality(users) < MaxUsers
               /\ nextId <= MaxIssue
               /\ Commit(done, user)
               /\ IF failed \in Range(steps)
                  THEN /\ Reply(RegisterCall(email, phone, role, salonData), failure, NoToken, 0, Null)
                       /\ UNCHANGED <<tokens, nextId>>
                  ELSE IssueAfterCreate(RegisterCall(email, phone, role, salonData), user, fail, failure)

\* --------------------------------------------- AuthService.registerWithPhone
\* role is any string (IsString); a value outside the UserRole enum is
\* rejected by the store when the user row is created.
registerWithPhone(phone, role, fail) ==
    /\ UNCHANGED <<otps, now, ticks, procs, otpCalls, revoked, verifiedPhones>>
    /\ IF \E u \in users : u.phone = phone
       THEN /\ Reply(Call("registerWithPhone", <<phone, role>>), Err("ConflictException", "User with this phone number already exists"), NoToken, 0, Null)
            /\ UNCHANGED <<stores, nextId>>
       ELSE LET user == NewUser(PhoneEmail(phone), phone, NoPassword, role, TRUE, FALSE, Null, Null, Null)
                steps == <<"user">> \o (IF role = "CUSTOMER" THEN <<"profile">> ELSE <<>>)
                failed == IF role \notin UserRole \/ UserUniqueViolation(user, users)
                          THEN "user" ELSE fail
                done == Transaction(steps, failed)
                failure == Err("BadRequestException", "Registration failed")
            IN /\ Cardinality(users) < MaxUsers
               /\ nextId <= MaxIssue
               /\ Commit(done, user)
               /\ IF failed \in Range(steps)
                  THEN /\ Reply(Call("registerWithPhone", <<phone, role>>), failure, NoToken, 0, Null)
                       /\ UNCHANGED <<tokens, nextId>>
                  ELSE IssueAfterCreate(Call("registerWithPhone", <<phone, role>>), user, fail, failure)

\* --------------------------------------------------------- AuthService.login
\* The result of the checks before token generation.
loginChecks(email, password) ==
    LET found == {u \in users : u.email = email} IN
    IF found = {} THEN Err("UnauthorizedException", "Invalid credentials")
    ELSE LET user == CHOOSE u \in found : TRUE IN
         IF ~user.isActive THEN Err("ForbiddenException", "Account is deactivated")
         ELSE IF user.password = NoPassword
              THEN Err("InternalServerError", "data and hash arguments required")
         ELSE IF ~bcryptCompare(password, user.password)
              THEN Err("UnauthorizedException", "Invalid credentials")
         ELSE Ok

login(email, password) ==
    /\ UNCHANGED <<users, profiles, salons, members, staff, otps, now, ticks, procs, otpCalls, revoked, verifiedPhones>>
    /\ IF loginChecks(email, password) # Ok
       THEN /\ Reply(Call("login", <<email, password>>), loginChecks(email, password), NoToken, 0, Null)
            /\ UNCHANGED <<tokens, nextId>>
       ELSE LET user == CHOOSE u \in users : u.email = email
                tok == generateTokens(user)
            IN IF TokenUniqueViolation(tok, tokens)
               THEN /\ Reply(Call("login", <<email, password>>), Err("InternalServerError", "Unique constraint failed"), NoToken, user.id, Null)
                    /\ UNCHANGED <<tokens, nextId>>
               ELSE /\ nextId <= MaxIssue
                    /\ tokens' = tokens \cup {TokenRow(user.id, tok)}
                    /\ nextId' = nextId + 1
                    /\ Reply(Call("login", <<email, password>>), Ok, tok, user.id, Null)

\* ------------------------------------------------- AuthService.refreshTokens
\* prisma.refreshToken.findFirst({token, userId: payload.sub, expiresAt > now})
storedToken(t) ==
    {r \in tokens : r.token = t /\ r.userId = t.sub /\ r.expiresAt > now}

RefreshFailure == Err("UnauthorizedException", "Invalid refresh token")

\* TRUE when refreshTokens(t) passes every check before the rotation.
refreshAccepts(t) ==
    /\ jwtVerify(t)
    /\ storedToken(t) # {}
    /\ \A r \in storedToken(t) : UserById(r.userId).isActive

refreshTokens(t) ==
    /\ UNCHANGED <<users, profiles, salons, members, staff, otps, now, ticks, procs, otpCalls, revoked, verifiedPhones>>
    /\ IF ~refreshAccepts(t)
       THEN /\ Reply(Call("refresh", <<t>>), RefreshFailure, NoToken, 0, Null)
            /\ UNCHANGED <<tokens, nextId>>
       ELSE LET row == CHOOSE r \in storedToken(t) : TRUE
                user == UserById(row.userId)
                tok == generateTokens(user)
                rest == tokens \ {row}
            IN IF TokenUniqueViolation(tok, rest)
               THEN /\ tokens' = rest
                    /\ Reply(Call("refresh", <<t>>), RefreshFailure, NoToken, user.id, Null)
                    /\ UNCHANGED <<nextId>>
               ELSE /\ nextId <= MaxIssue
                    /\ tokens' = rest \cup {TokenRow(user.id, tok)}
                    /\ nextId' = nextId + 1
                    /\ Reply(Call("refresh", <<t>>), Ok, tok, user.id, Null)

\* -------------------------------------------------------- AuthService.logout
\* prisma.refreshToken.deleteMany: the rows that match the where clause.
logoutMatchesAnyOwner(userId, t) ==
    IF t # NoToken THEN {r \in tokens : r.token = t}
    ELSE {r \in tokens : r.userId = userId}

logoutMatches(userId, t) ==
    IF t # NoToken THEN {r \in tokens : r.userId = userId /\ r.token = t}
    ELSE {r \in tokens : r.userId = userId}

logout(userId, t) ==
    /\ tokens' = tokens \ logoutMatches(userId, t)
    /\ revoked' = revoked \cup {r.token : r \in logoutMatches(userId, t)}
    /\ Reply(Call("logout", <<userId, t>>), Ok, NoToken, userId, Null)
    /\ UNCHANGED <<users, profiles, salons, members, staff, otps,
                   now, ticks, nextId, procs, otpCalls, verifiedPhones>>

\* ----------------------------------------- OAuthService.findOrCreateOAuthUser
\* The fields an existing user gains from the claims.
oauthUpdateToggle(user, provider, providerId, avatar) ==
    [user EXCEPT !.googleId = IF provider = "google" THEN providerId ELSE @,
                 !.appleId = IF provider = "apple" THEN providerId ELSE @,
                 !.isEmailVerified = ~@]

oauthUpdate(user, provider, providerId, avatar) ==
    LET u1 == IF provider = "google" /\ user.googleId = Null
              THEN [user EXCEPT !.googleId = providerId]
              ELSE IF provider = "apple" /\ user.appleId = Null
              THEN [user EXCEPT !.appleId = providerId]
              ELSE user
        u2 == IF avatar # Null /\ user.avatar = Null THEN [u1 EXCEPT !.avatar = avatar] ELSE u1
    IN IF ~user.isEmailVerified THEN [u2 EXCEPT !.isEmailVerified = TRUE] ELSE u2

\* [ok, user, users, created]: the user returned and the User table after.
findOrCreateOAuthUser(email, provider, providerId, avatar) ==
    LET found == {u \in users : u.email = email} IN
    IF found # {}
    THEN LET user == CHOOSE u \in found : TRUE
             upd == oauthUpdate(user, provider, providerId, avatar)
         IN IF UserUniqueViolation([upd EXCEPT !.email = Null, !.phone = Null], users \ {user})
            THEN [ok |-> FALSE, user |-> user, users |-> users, created |-> FALSE]
            ELSE [ok |-> TRUE, user |-> upd, users |-> (users \ {user}) \cup {upd}, created |-> FALSE]
    ELSE LET user == NewUser(email, Null, NoPassword, "CUSTOMER", FALSE, TRUE,
                             IF provider = "google" THEN providerId ELSE Null,
                             IF provider = "apple" THEN providerId ELSE Null, avatar)
         IN IF UserUniqueViolation(user, users)
            THEN [ok |-> FALSE, user |-> user, users |-> users, created |-> FALSE]
            ELSE [ok |-> TRUE, user |-> user, users |-> users \cup {user}, created |-> TRUE]

\* googleOAuth / appleOAuth: verify the provider token, find or create the
\* user, issue tokens; any failure surfaces as UnauthorizedException.
oauth(op, provider, valid, email, providerId, avatar) ==
    LET failure == Err("UnauthorizedException",
                       IF provider = "google" THEN "Google authentication failed"
                       ELSE "Apple authentication failed")
        found == findOrCreateOAuthUser(email, provider, providerId, avatar)
        tok == generateTokens(found.user)
    IN
    /\ UNCHANGED <<salons, members, staff, otps, now, ticks, procs, otpCalls, revoked, verifiedPhones>>
    /\ IF ~valid \/ ~found.ok
       THEN /\ Reply(op, failure, NoToken, 0, Null)
            /\ UNCHANGED <<users, profiles, tokens, nextId>>
       ELSE /\ found.created => Cardinality(users) < MaxUsers
            /\ users' = found.users
            /\ profiles' = IF found.created THEN profiles \cup {found.user.id} ELSE profiles
            /\ IF TokenUniqueViolation(tok, tokens)
               THEN /\ Reply(op, failure, NoToken, found.user.id, Null)
                    /\ UNCHANGED <<tokens, nextId>>
               ELSE /\ nextId <= MaxIssue
                    /\ tokens' = tokens \cup {TokenRow(found.user.id, tok)}
                    /\ nextId' = nextId + 1
                    /\ Reply(op, Ok, tok, found.user.id, Null)

googleOAuth(valid, email, providerId, avatar) ==
    oauth(Call("googleOAuth", <<email>>), "google", valid, email, providerId, avatar)

appleOAuth(valid, email, providerId, avatar) ==
    oauth(Call("appleOAuth", <<email>>), "apple", valid, email, providerId, avatar)

\* The refresh tokens a client can hold: the ones an operation has returned.
Presentable == issued

\* ------------------------------------------------------ SmsOtpService.sendOTP
\* The id a facade call without userId makes up (uuidv4): the id of no user.
RandomUuid == 0

cleanupExpiredOTPs(userId, phone) ==
    {o \in otps : ~(o.userId = userId /\ o.phone = phone /\ o.expiresAt < now)}

recentOTP(rows, userId, phone, purpose) ==
    {o \in rows : o.userId = userId /\ o.phone = phone /\ o.purpose = purpose
                  /\ o.createdAt >= now - OtpCooldown}

\* History: otpCalls is the number of verifyOTP calls that selected each
\* stored record; verifiedPhones holds the phones of the verifyOTP calls that
\* succeeded.
OtpKey(o) == <<o.userId, o.phone, o.purpose, o.createdAt>>

OtpRow(userId, phone, otp, purpose) ==
    [userId |-> userId, phone |-> phone, otp |-> otp, purpose |-> purpose,
     verified |-> FALSE, attempts |-> 0, expiresAt |-> now + OtpTtl, createdAt |-> now]

\* AuthService.sendOTP over SmsOtpService.sendOTP. The SMS is dispatched
\* before the row is created; OTPVerification.userId references User.id.
sendOTP(userId, phone, purpose, otp, smsOk) ==
    LET target == IF userId = 0 THEN RandomUuid ELSE userId
        kept == cleanupExpiredOTPs(target, phone)
        failure == Err("BadRequestException", "Failed to send verification code")
    IN
    /\ UNCHANGED <<stores, now, ticks, nextId, procs>>
    /\ IF recentOTP(kept, target, phone, purpose) # {}
       THEN /\ otps' = kept
            /\ Reply(Call("sendOTP", <<phone, purpose>>), Err("BadRequestException", "Please wait before requesting another OTP"), NoToken, target, Null)
       ELSE IF ~smsOk
       THEN /\ otps' = kept
            /\ Reply(Call("sendOTP", <<phone, purpose>>), failure, NoToken, target, Null)
       ELSE IF ~\E u \in users : u.id = target
       THEN /\ otps' = kept
            /\ Reply(Call("sendOTP", <<phone, purpose>>), failure, NoToken, target, otp)
       ELSE /\ otps' = kept \cup {OtpRow(target, phone, otp, purpose)}
            /\ Reply(Call("sendOTP", <<phone, purpose>>), Ok, NoToken, target, otp)
    /\ otpCalls' = [k \in {OtpKey(o) : o \in otps'} |->
                       IF k \in DOMAIN otpCalls THEN otpCalls[k] ELSE 0]
    /\ UNCHANGED <<revoked, verifiedPhones>>

\* ---------------------------------------------------- SmsOtpService.verifyOTP
\* findFirst({userId, phone, purpose, verified: false, expiresAt >= now},
\* orderBy createdAt desc)
otpCandidatesNoExpiry(userId, phone, purpose) ==
    {o \in otps : o.userId = userId /\ o.phone = phone /\ o.purpose = purpose
                  /\ ~o.verified}

otpCandidates(userId, phone, purpose) ==
    {o \in otps : o.userId = userId /\ o.phone = phone /\ o.purpose = purpose
                  /\ ~o.verified /\ o.expiresAt >= now}

HasOtpRecord(userId, phone, purpose) == otpCandidates(userId, phone, purpose) # {}

otpRecord(userId, phone, purpose) ==
    CHOOSE o \in otpCandidates(userId, phone, purpose) :
        \A p \in otpCandidates(userId, phone, purpose) : p.createdAt <= o.createdAt

\* The check after the increment reads the count read before it.
tooManyAttemptsNever(rec) == FALSE

tooManyAttempts(rec) == rec.attempts >= OtpMaxAttempts

\* oTPVerification.update({attempts: otpRecord.attempts + 1})
incrementAttemptsSkip(rec) == rec

incrementAttempts(rec) == [rec EXCEPT !.attempts = rec.attempts + 1]

verifyOTP(userId, phone, otp, purpose) ==
    /\ UNCHANGED <<profiles, salons, members, staff, tokens, now, ticks, nextId, procs>>
    /\ otpCalls' = IF userId # 0 /\ HasOtpRecord(userId, phone, purpose)
                   THEN [otpCalls EXCEPT ![OtpKey(otpRecord(userId, phone, purpose))] = @ + 1]
                   ELSE otpCalls
    /\ UNCHANGED revoked
    /\ IF userId = 0
       THEN /\ Reply(Call("verifyOTP", <<phone, otp, purpose>>), Err("BadRequestException", "User ID is required for OTP verification"), NoToken, 0, Null)
            /\ UNCHANGED <<users, otps>>
       ELSE IF ~HasOtpRecord(userId, phone, purpose)
       THEN /\ Reply(Call("verifyOTP", <<phone, otp, purpose>>), Err("UnauthorizedException", "Invalid or expired verification code"), NoToken, userId, Null)
            /\ UNCHANGED <<users, otps>>
       ELSE LET rec == otpRecord(userId, phone, purpose)
                bumped == incrementAttempts(rec)
            IN /\ rec.attempts < MaxVerify
               /\ IF tooManyAttempts(rec)
                  THEN /\ otps' = (otps \ {rec}) \cup {bumped}
                       /\ UNCHANGED users
                       /\ Reply(Call("verifyOTP", <<phone, otp, purpose>>), Err("UnauthorizedException", "Too many verification attempts. Please request a new code."), NoToken, userId, Null)
                  ELSE IF rec.otp # otp
                  THEN /\ otps' = (otps \ {rec}) \cup {bumped}
                       /\ UNCHANGED users
                       /\ Reply(Call("verifyOTP", <<phone, otp, purpose>>), Err("UnauthorizedException", "Invalid verification code"), NoToken, userId, Null)
                  ELSE /\ otps' = (otps \ {rec}) \cup {[bumped EXCEPT !.verified = TRUE]}
                       /\ users' = {IF u.id = userId THEN [u EXCEPT !.isPhoneVerified = TRUE] ELSE u : u \in users}
                       /\ Reply(Call("verifyOTP", <<phone, otp, purpose>>), Ok, NoToken, userId, Null)
    /\ verifiedPhones' = IF last'.err = "none" THEN verifiedPhones \cup {phone}
                         ELSE verifiedPhones

\* The points at which a registration can be made to fail: a write of its
\* transaction, the signer, or the insert of the refresh-token row.
FailPoints(role, salonData) ==
    IF validateRegistrationRules(role, salonData) # Ok THEN {"none"}
    ELSE {"none", "sign", "save"} \cup Range(registerSteps(role, salonData))

\* Registration and identity: every operation that creates or changes a user.
Next ==
    \/ \E e \in Emails, ph \in Phones \cup {Null}, r \in RoleInputs, sd \in BOOLEAN :
          \E f \in FailPoints(r, sd) : register(e, "Abc123!@", ph, r, sd, f)
    \/ \E ph \in Phones, r \in RoleInputs, f \in {"none", "profile", "save"} :
          registerWithPhone(ph, r, f)
    \/ \E v \in BOOLEAN, e \in Emails, s \in ProviderIds, a \in Avatars : googleOAuth(v, e, s, a)
    \/ \E v \in BOOLEAN, e \in Emails, s \in ProviderIds, a \in Avatars : appleOAuth(v, e, s, a)

Spec == Init /\ [][Next]_vars

\* Sessions: the life of refresh tokens of registered customers.
NextSession ==
    \/ \E d \in SessionTicks : Tick(d)
    \/ \E id \in 1..MaxUsers : Deactivate(id)
    \/ \E e \in Emails : register(e, "Abc123!@", Null, "CUSTOMER", FALSE, "none")
    \/ \E e \in Emails, pw \in Passwords : login(e, pw)
    \/ \E t \in Presentable \cup {Forged} : refreshTokens(t)
    \/ \E u \in users, t \in Presentable \cup {NoToken} : logout(u.id, t)

SpecSession == Init /\ [][NextSession]_vars

\* Phone verification: codes sent to and verified for registered customers.
NextOtp ==
    \/ \E d \in OtpTicks : Tick(d)
    \/ register("a@x.com", "Abc123!@", Null, "CUSTOMER", FALSE, "none")
    \/ \E id \in UserIds \cup {0}, ph \in Phones, pu \in Purposes, c \in Codes, ok \in BOOLEAN :
          sendOTP(id, ph, pu, c, ok)
    \/ \E id \in UserIds \cup {0}, ph \in Phones, pu \in Purposes, c \in Codes :
          verifyOTP(id, ph, c, pu)

SpecOtp == Init /\ [][NextOtp]_vars

\* Phone registration: the documented flow of sendOTP, verifyOTP and
\* registerWithPhone, next to an email registration.
NextPhone ==
    \/ register("a@x.com", "Abc123!@", Null, "CUSTOMER", FALSE, "none")
    \/ \E id \in UserIds \cup {0}, ph \in Phones, pu \in Purposes, c \in Codes, ok \in BOOLEAN :
          sendOTP(id, ph, pu, c, ok)
    \/ \E id \in UserIds \cup {0}, ph \in Phones, pu \in Purposes, c \in Codes :
          verifyOTP(id, ph, c, pu)
    \/ \E ph \in Phones, r \in {"CUSTOMER", "SALON_OWNER"} : registerWithPhone(ph, r, "none")

SpecPhone == Init /\ [][NextPhone]_vars

\* ------------------------------------ refreshTokens, one store call at a time
\* Two requests present the refresh token of the one registered customer;
\* each await of refreshTokens is a step of its own.
Procs == {1, 2}
NoRow == [id |-> 0, userId |-> 0, token |-> NoToken, expiresAt |-> 0]
RaceUser ==
    [id |-> 1, email |-> "a@x.com", phone |-> Null, password |-> hashPassword("Abc123!@"),
     role |-> "CUSTOMER", isActive |-> TRUE, isPhoneVerified |-> FALSE,
     isEmailVerified |-> FALSE, googleId |-> Null, appleId |-> Null, avatar |-> Null]
RaceToken == signAsync(RaceUser, 0)

\* The state after register(a@x.com, CUSTOMER) at time 0.
InitRefreshRace ==
    /\ users = {RaceUser}
    /\ profiles = {1}
    /\ salons = {}
    /\ members = {}
    /\ staff = {}
    /\ tokens = {[id |-> 1, userId |-> 1, token |-> RaceToken, expiresAt |-> RefreshTtl]}
    /\ otps = {}
    /\ now = 0
    /\ ticks = 0
    /\ nextId = 2
    /\ last = [op |-> "register", req |-> <<"a@x.com", Null, "CUSTOMER", FALSE>>, err |-> "none", msg |-> "", token |-> RaceToken, uid |-> 1, sms |-> Null]
    /\ procs = [p \in Procs |-> [pc |-> "lookup", t |-> RaceToken, row |-> NoRow, tok |-> NoToken, err |-> "none"]]
    /\ otpCalls = [k \in {} |-> 0]
    /\ issued = {RaceToken}
    /\ revoked = {}
    /\ verifiedPhones = {}

RaceFrame == UNCHANGED <<users, profiles, salons, members, staff, otps, now, ticks, last, otpCalls, issued, revoked, verifiedPhones>>

\* jwtService.verify, findFirst and the active check.
RefreshLookup(p) ==
    /\ procs[p].pc = "lookup"
    /\ IF refreshAccepts(procs[p].t)
       THEN procs' = [procs EXCEPT ![p].pc = "sign",
                                   ![p].row = CHOOSE r \in storedToken(procs[p].t) : TRUE]
       ELSE procs' = [procs EXCEPT ![p].pc = "done", ![p].err = RefreshFailure.err]
    /\ UNCHANGED <<tokens, nextId>>
    /\ RaceFrame

\* generateTokens(storedToken.user)
RefreshSign(p) ==
    /\ procs[p].pc = "sign"
    /\ procs' = [procs EXCEPT ![p].pc = "delete",
                              ![p].tok = generateTokens(UserById(procs[p].row.userId))]
    /\ UNCHANGED <<tokens, nextId>>
    /\ RaceFrame

\* prisma.refreshToken.delete({id}): throws when the row is gone.
RefreshDelete(p) ==
    /\ procs[p].pc = "delete"
    /\ IF procs[p].row \in tokens
       THEN /\ tokens' = tokens \ {procs[p].row}
            /\ procs' = [procs EXCEPT ![p].pc = "save"]
       ELSE /\ procs' = [procs EXCEPT ![p].pc = "done", ![p].err = RefreshFailure.err]
            /\ UNCHANGED tokens
    /\ UNCHANGED nextId
    /\ RaceFrame

\* saveRefreshToken(user.id, tokens.refreshToken)
RefreshSave(p) ==
    /\ procs[p].pc = "save"
    /\ IF TokenUniqueViolation(procs[p].tok, tokens)
       THEN /\ procs' = [procs EXCEPT ![p].pc = "done", ![p].err = RefreshFailure.err]
            /\ UNCHANGED <<tokens, nextId>>
       ELSE /\ nextId <= MaxIssue
            /\ tokens' = tokens \cup {TokenRow(procs[p].row.userId, procs[p].tok)}
            /\ nextId' = nextId + 1
            /\ procs' = [procs EXCEPT ![p].pc = "done"]
    /\ RaceFrame

NextRefreshRace ==
    \/ Tick(1)
    \/ \E p \in Procs : RefreshLookup(p)
    \/ \E p \in Procs : RefreshSign(p)
    \/ \E p \in Procs : RefreshDelete(p)
    \/ \E p \in Procs : RefreshSave(p)

SpecRefreshRace == InitRefreshRace /\ [][NextRefreshRace]_vars

\* ----------------------------------------- register, one store call at a time
\* Two register requests run against an empty store; the existence check,
\* the transaction and the token issuance of each are steps of their own.
RaceRoles == {"CUSTOMER", "SALON_OWNER", "STAFF"}

RegisterRequest(email, phone, role) ==
    [pc |-> "check", email |-> email, phone |-> phone, role |-> role,
     passed |-> FALSE, uid |-> 0, tok |-> NoToken, err |-> "none"]

InitRegisterRace ==
    /\ users = {}
    /\ profiles = {}
    /\ salons = {}
    /\ members = {}
    /\ staff = {}
    /\ tokens = {}
    /\ otps = {}
    /\ now = 0
    /\ ticks = 0
    /\ nextId = 1
    /\ last = NoCall
    /\ procs \in [Procs -> {RegisterRequest(e, ph, r) :
                               e \in Emails, ph \in Phones \cup {Null}, r \in RaceRoles}]
    /\ otpCalls = [k \in {} |-> 0]
    /\ issued = {}
    /\ revoked = {}
    /\ verifiedPhones = {}

RegisterFrame == UNCHANGED <<otps, now, ticks, last, otpCalls, revoked, verifiedPhones>>

\* prisma.user.findFirst, the ConflictException and validateRegistrationRules.
RegisterCheck(p) ==
    LET rq == procs[p] IN
    /\ rq.pc = "check"
    /\ procs' = IF existingUser(rq.email, rq.phone) # {}
                THEN [procs EXCEPT ![p].pc = "done", ![p].err = "ConflictException"]
                ELSE IF validateRegistrationRules(rq.role, TRUE) # Ok
                THEN [procs EXCEPT ![p].pc = "done",
                                   ![p].err = validateRegistrationRules(rq.role, TRUE).err]
                ELSE [procs EXCEPT ![p].pc = "create", ![p].passed = TRUE]
    /\ UNCHANGED <<stores, nextId, issued>>
    /\ RegisterFrame

\* prisma.$transaction: the user row and the rows of its role; a unique
\* violation is caught and rethrown as BadRequestException.
RegisterCreate(p) ==
    LET rq == procs[p]
        user == NewUser(rq.email, rq.phone, hashPassword("Abc123!@"), rq.role,
                        FALSE, FALSE, Null, Null, Null)
        steps == registerSteps(rq.role, TRUE)
        failed == IF UserUniqueViolation(user, users) THEN "user" ELSE "none"
    IN
    /\ rq.pc = "create"
    /\ Commit(Transaction(steps, failed), user)
    /\ procs' = IF failed = "user"
                THEN [procs EXCEPT ![p].pc = "done", ![p].err = "BadRequestException"]
                ELSE [procs EXCEPT ![p].pc = "issue", ![p].uid = user.id]
    /\ UNCHANGED <<tokens, nextId, issued>>
    /\ RegisterFrame

\* generateTokens and saveRefreshToken for the created user.
RegisterIssue(p) ==
    LET rq == procs[p]
        tok == generateTokens(UserById(rq.uid))
    IN
    /\ rq.pc = "issue"
    /\ IF TokenUniqueViolation(tok, tokens)
       THEN /\ procs' = [procs EXCEPT ![p].pc = "done", ![p].err = "BadRequestException"]
            /\ UNCHANGED <<tokens, nextId, issued>>
       ELSE /\ tokens' = tokens \cup {TokenRow(rq.uid, tok)}
            /\ nextId' = nextId + 1
            /\ issued' = issued \cup {tok}
            /\ procs' = [procs EXCEPT ![p].pc = "done", ![p].tok = tok]
    /\ UNCHANGED <<users, profiles, salons, members, staff>>
    /\ RegisterFrame

NextRegisterRace ==
    \/ \E p \in Procs : RegisterCheck(p)
    \/ \E p \in Procs : RegisterCreate(p)
    \/ \E p \in Procs : RegisterIssue(p)

SpecRegisterRace == InitRegisterRace /\ [][NextRegisterRace]_vars

\* Accounts: sign-in by password, by refresh token and by OAuth provider, for
\* customers an administrator may deactivate.
NextAccount ==
    \/ Tick(1)
    \/ \E id \in 1..MaxUsers : Deactivate(id)
    \/ \E e \in Emails : register(e, "Abc123!@", Null, "CUSTOMER", FALSE, "none")
    \/ \E e \in Emails : login(e, "Abc123!@")
    \/ \E t \in Presentable : refreshTokens(t)
    \/ \E v \in BOOLEAN, e \in Emails : googleOAuth(v, e, "sub1", Null)
    \/ \E v \in BOOLEAN, e \in Emails : appleOAuth(v, e, "sub1", Null)

SpecAccount == Init /\ [][NextAccount]_vars

\* -------------------------------------------- verifyOTP, one store call at a time
\* Two verifyOTP requests for the one record of user 1, which earlier calls
\* with wrong codes have already selected `prior` times; each await of
\* SmsOtpService.verifyOTP is a step of its own.
RaceOtp(prior) ==
    [userId |-> 1, phone |-> "+1555", otp |-> "111111", purpose |-> "registration",
     verified |-> FALSE, attempts |-> prior, expiresAt |-> OtpTtl, createdAt |-> 0]

VerifyRequest(otp, prior) ==
    [pc |-> "find", otp |-> otp, rec |-> RaceOtp(0), selected |-> FALSE,
     compared |-> FALSE, prior |-> prior, err |-> "none"]

InitVerifyRace ==
    \E prior \in 0..OtpMaxAttempts :
        /\ users = {RaceUser}
        /\ profiles = {1}
        /\ salons = {}
        /\ members = {}
        /\ staff = {}
        /\ tokens = {}
        /\ otps = {RaceOtp(prior)}
        /\ now = 0
        /\ ticks = 0
        /\ nextId = 1
        /\ last = NoCall
        /\ procs \in [Procs -> {VerifyRequest(c, prior) : c \in Codes}]
        /\ otpCalls = [k \in {OtpKey(RaceOtp(prior))} |-> prior]
        /\ issued = {}
        /\ revoked = {}
        /\ verifiedPhones = {}

VerifyFrame ==
    UNCHANGED <<profiles, salons, members, staff, tokens, now, ticks, nextId, last,
                issued, revoked>>

\* The row with the id of rec, as the store holds it now, with one field set.
UpdateOtp(rec, field, value) ==
    {IF OtpKey(o) = OtpKey(rec) THEN [o EXCEPT ![field] = value] ELSE o : o \in otps}

\* oTPVerification.findFirst and the UnauthorizedException when none is found.
VerifyFind(p) ==
    /\ procs[p].pc = "find"
    /\ IF HasOtpRecord(1, "+1555", "registration")
       THEN /\ procs' = [procs EXCEPT ![p].pc = "increment", ![p].selected = TRUE,
                                      ![p].rec = otpRecord(1, "+1555", "registration")]
            /\ otpCalls' = [otpCalls EXCEPT ![OtpKey(otpRecord(1, "+1555", "registration"))] = @ + 1]
       ELSE /\ procs' = [procs EXCEPT ![p].pc = "done", ![p].err = "UnauthorizedException"]
            /\ UNCHANGED otpCalls
    /\ UNCHANGED <<users, otps, verifiedPhones>>
    /\ VerifyFrame

\* oTPVerification.update({attempts: otpRecord.attempts + 1}), from the record
\* as it was read.
VerifyIncrement(p) ==
    /\ procs[p].pc = "increment"
    /\ otps' = UpdateOtp(procs[p].rec, "attempts", incrementAttempts(procs[p].rec).attempts)
    /\ procs' = [procs EXCEPT ![p].pc = "check"]
    /\ UNCHANGED <<users, otpCalls, verifiedPhones>>
    /\ VerifyFrame

\* The cap check and the comparison of the codes, on the record as read.
VerifyCheck(p) ==
    /\ procs[p].pc = "check"
    /\ IF tooManyAttempts(procs[p].rec)
       THEN /\ otps' = UpdateOtp(procs[p].rec, "verified", FALSE)
            /\ procs' = [procs EXCEPT ![p].pc = "done", ![p].err = "UnauthorizedException"]
       ELSE /\ UNCHANGED otps
            /\ procs' = IF procs[p].rec.otp # procs[p].otp
                        THEN [procs EXCEPT ![p].pc = "done", ![p].compared = TRUE,
                                           ![p].err = "UnauthorizedException"]
                        ELSE [procs EXCEPT ![p].pc = "mark", ![p].compared = TRUE]
    /\ UNCHANGED <<users, otpCalls, verifiedPhones>>
    /\ VerifyFrame

\* oTPVerification.update({verified: true})
VerifyMark(p) ==
    /\ procs[p].pc = "mark"
    /\ otps' = UpdateOtp(procs[p].rec, "verified", TRUE)
    /\ procs' = [procs EXCEPT ![p].pc = "user"]
    /\ UNCHANGED <<users, otpCalls, verifiedPhones>>
    /\ VerifyFrame

\* user.update({isPhoneVerified: true})
VerifyUser(p) ==
    /\ procs[p].pc = "user"
    /\ users' = {IF u.id = 1 THEN [u EXCEPT !.isPhoneVerified = TRUE] ELSE u : u \in users}
    /\ verifiedPhones' = verifiedPhones \cup {"+1555"}
    /\ procs' = [procs EXCEPT ![p].pc = "done"]
    /\ UNCHANGED <<otps, otpCalls>>
    /\ VerifyFrame

NextVerifyRace ==
    \/ \E p \in Procs : VerifyFind(p)
    \/ \E p \in Procs : VerifyIncrement(p)
    \/ \E p \in Procs : VerifyCheck(p)
    \/ \E p \in Procs : VerifyMark(p)
    \/ \E p \in Procs : VerifyUser(p)

SpecVerifyRace == InitVerifyRace /\ [][NextVerifyRace]_vars

\* ------------------------------- logout of all sessions against refreshTokens
\* Two requests present the refresh token of the one registered customer
\* while a third request logs the customer out of every session.
LogoutProc == 3

InitLogoutRace ==
    /\ users = {RaceUser}
    /\ profiles = {1}
    /\ salons = {}
    /\ members = {}
    /\ staff = {}
    /\ tokens = {[id |-> 1, userId |-> 1, token |-> RaceToken, expiresAt |-> RefreshTtl]}
    /\ otps = {}
    /\ now = 0
    /\ ticks = 0
    /\ nextId = 2
    /\ last = NoCall
    /\ procs = [p \in Procs \cup {LogoutProc} |->
                   IF p = LogoutProc
                   THEN [pc |-> "deleteMany", began |-> {}]
                   ELSE [pc |-> "lookup", t |-> RaceToken, row |-> NoRow,
                         tok |-> NoToken, err |-> "none"]]
    /\ otpCalls = [k \in {} |-> 0]
    /\ issued = {RaceToken}
    /\ revoked = {}
    /\ verifiedPhones = {}

\* prisma.refreshToken.deleteMany({userId}); began records the refresh
\* requests that had already run their lookup.
LogoutDeleteMany ==
    /\ procs[LogoutProc].pc = "deleteMany"
    /\ tokens' = tokens \ logoutMatches(1, NoToken)
    /\ revoked' = revoked \cup {r.token : r \in logoutMatches(1, NoToken)}
    /\ procs' = [procs EXCEPT ![LogoutProc].pc = "done",
                              ![LogoutProc].began = {p \in Procs : procs[p].pc # "lookup"}]
    /\ UNCHANGED <<users, profiles, salons, members, staff, otps, now, ticks, nextId,
                   last, otpCalls, issued, verifiedPhones>>

NextLogoutRace ==
    \/ Tick(1)
    \/ LogoutDeleteMany
    \/ \E p \in Procs : RefreshLookup(p)
    \/ \E p \in Procs : RefreshSign(p)
    \/ \E p \in Procs : RefreshDelete(p)
    \/ \E p \in Procs : RefreshSave(p)

SpecLogoutRace == InitLogoutRace /\ [][NextLogoutRace]_vars

\* ----------------------------------------- AuthProvider: refresh on 401
\* The web client of the one registered customer. Two API requests were sent
\* while the provider held RaceToken and both are answered 401. Every request
\* carries the response interceptor registered when it was sent, whose
\* refreshAccessToken reads the refresh token the provider held then. A
\* frame is one POST /auth/refresh in flight: the token in its body, the
\* token its interceptor would refresh with, its _retry flag and its answer.
ClientProc == 0
MaxRefreshCalls == 6

Frame(t, closure) ==
    [t |-> t, closure |-> closure, retry |-> FALSE, resp |-> "pending", tok |-> NoToken]

InitClient ==
    /\ users = {RaceUser}
    /\ profiles = {1}
    /\ salons = {}
    /\ members = {}
    /\ staff = {}
    /\ tokens = {[id |-> 1, userId |-> 1, token |-> RaceToken, expiresAt |-> RefreshTtl]}
    /\ otps = {}
    /\ now = 0
    /\ ticks = 0
    /\ nextId = 2
    /\ last = NoCall
    /\ procs = [p \in Procs \cup {ClientProc} |->
                   IF p = ClientProc
                   THEN [pc |-> "provider", held |-> RaceToken, user |-> 1, calls |-> 0]
                   ELSE [pc |-> "401", stack |-> <<>>, retries |-> 0, out |-> "none"]]
    /\ otpCalls = [k \in {} |-> 0]
    /\ issued = {RaceToken}
    /\ revoked = {}
    /\ verifiedPhones = {}

ClientFrame ==
    UNCHANGED <<users, profiles, salons, members, staff, otps, now, ticks, last,
                otpCalls, verifiedPhones>>

Top(p) == procs[p].stack[Len(procs[p].stack)]

Pop(p) == SubSeq(procs[p].stack, 1, Len(procs[p].stack) - 1)

SetTop(p, frame) == Pop(p) \o <<frame>>

\* refreshAccessToken reaching ApiService.auth.refresh(refreshToken): a new
\* POST /auth/refresh with the token of the calling closure.
SendRefresh(p, stack, t) ==
    /\ procs[ClientProc].calls < MaxRefreshCalls
    /\ procs' = [procs EXCEPT ![p].stack = Append(stack, Frame(t, procs[ClientProc].held)),
                              ![p].pc = "refreshing",
                              ![ClientProc].calls = @ + 1]

\* The interceptor on the 401 of an original request: _retry is set and
\* refreshAccessToken is called.
Intercept(p) ==
    /\ p \in Procs
    /\ procs[p].pc = "401"
    /\ SendRefresh(p, <<>>, RaceToken)
    /\ UNCHANGED <<tokens, nextId, issued, revoked>>
    /\ ClientFrame

\* The server answers the POST /auth/refresh on top of the stack
\* (AuthService.refreshTokens).
ServeRefresh(p) ==
    /\ p \in Procs
    /\ procs[p].pc = "refreshing"
    /\ Top(p).resp = "pending"
    /\ UNCHANGED revoked
    /\ ClientFrame
    /\ IF ~refreshAccepts(Top(p).t)
       THEN /\ procs' = [procs EXCEPT ![p].stack = SetTop(p, [Top(p) EXCEPT !.resp = "401"])]
            /\ UNCHANGED <<tokens, nextId, issued>>
       ELSE LET row == CHOOSE r \in storedToken(Top(p).t) : TRUE
                tok == generateTokens(UserById(row.userId))
                rest == tokens \ {row}
            IN IF TokenUniqueViolation(tok, rest)
               THEN /\ tokens' = rest
                    /\ procs' = [procs EXCEPT ![p].stack = SetTop(p, [Top(p) EXCEPT !.resp = "401"])]
                    /\ UNCHANGED <<nextId, issued>>
               ELSE /\ nextId <= MaxIssue
                    /\ tokens' = rest \cup {TokenRow(row.userId, tok)}
                    /\ nextId' = nextId + 1
                    /\ issued' = issued \cup {tok}
                    /\ procs' = [procs EXCEPT ![p].stack =
                                     SetTop(p, [Top(p) EXCEPT !.resp = "ok", !.tok = tok])]

\* refreshAccessToken after a successful answer: the provider stores the new
\* pair; the interceptor that called it then sends its own request again.
RefreshSucceeded(p) ==
    /\ p \in Procs
    /\ procs[p].pc = "refreshing"
    /\ Top(p).resp = "ok"
    /\ IF Len(procs[p].stack) = 1
       THEN procs' = [procs EXCEPT ![ClientProc].held = Top(p).tok,
                                   ![p].stack = <<>>,
                                   ![p].retries = @ + 1,
                                   ![p].out = "retried",
                                   ![p].pc = "settled"]
       ELSE /\ procs[ClientProc].calls < MaxRefreshCalls
            /\ procs' = [procs EXCEPT
                            ![ClientProc].held = Top(p).tok,
                            ![ClientProc].calls = @ + 1,
                            ![p].stack = SubSeq(Pop(p), 1, Len(Pop(p)) - 1)
                                \o <<[Pop(p)[Len(Pop(p))] EXCEPT !.resp = "pending",
                                                                !.closure = Top(p).tok]>>]
    /\ UNCHANGED <<tokens, nextId, issued, revoked>>
    /\ ClientFrame

\* The interceptor on the 401 of a POST /auth/refresh not yet retried: _retry
\* is set and refreshAccessToken of the interceptor's closure is called.
RefreshIntercepted(p) ==
    /\ p \in Procs
    /\ procs[p].pc = "refreshing"
    /\ Top(p).resp = "401"
    /\ ~Top(p).retry
    /\ Top(p).closure # NoToken
    /\ SendRefresh(p, SetTop(p, [Top(p) EXCEPT !.retry = TRUE]), Top(p).closure)
    /\ UNCHANGED <<tokens, nextId, issued, revoked>>
    /\ ClientFrame

\* The POST /auth/refresh is rejected to the refreshAccessToken that sent it
\* (its retry was answered 401 too, or its interceptor had no refresh token):
\* the catch block runs logout(), which deletes the closure's token on the
\* server and clears the provider, and rethrows to the calling interceptor.
RefreshRejected(p) ==
    /\ p \in Procs
    /\ procs[p].pc = "refreshing"
    /\ Top(p).resp = "401"
    /\ Top(p).retry \/ Top(p).closure = NoToken
    /\ tokens' = tokens \ logoutMatches(1, Top(p).t)
    /\ revoked' = revoked \cup {r.token : r \in logoutMatches(1, Top(p).t)}
    /\ procs' = IF Len(procs[p].stack) = 1
                THEN [procs EXCEPT ![ClientProc].held = NoToken,
                                   ![ClientProc].user = 0,
                                   ![p].stack = <<>>,
                                   ![p].out = "rejected",
                                   ![p].pc = "settled"]
                ELSE [procs EXCEPT ![ClientProc].held = NoToken,
                                   ![ClientProc].user = 0,
                                   ![p].stack = SubSeq(Pop(p), 1, Len(Pop(p)) - 1)
                                       \o <<[Pop(p)[Len(Pop(p))] EXCEPT !.retry = TRUE]>>]
    /\ UNCHANGED <<nextId, issued>>
    /\ ClientFrame

NextClient ==
    \/ Tick(1)
    \/ \E p \in Procs : Intercept(p)
    \/ \E p \in Procs : ServeRefresh(p)
    \/ \E p \in Procs : RefreshSucceeded(p)
    \/ \E p \in Procs : RefreshIntercepted(p)
    \/ \E p \in Procs : RefreshRejected(p)

SpecClient == InitClient /\ [][NextClient]_vars

\* OAuth sign-in: provider sign-ins of new users and of customers who
\* registered with a password.
NextOAuth ==
    \/ Tick(1)
    \/ \E e \in Emails : register(e, "Abc123!@", Null, "CUSTOMER", FALSE, "none")
    \/ \E v \in BOOLEAN, e \in Emails, s \in ProviderIds, a \in Avatars : googleOAuth(v, e, s, a)
    \/ \E v \in BOOLEAN, e \in Emails, s \in ProviderIds, a \in Avatars : appleOAuth(v, e, s, a)

SpecOAuth == Init /\ [][NextOAuth]_vars

\* ==================================================================== claims
RefreshOk == last'.op = "refresh" /\ last'.err = "none"
TokenStored(t) == \E r \in tokens : r.token = t /\ r.expiresAt > now
ValidRows(userId) == {r \in tokens : r.userId = userId /\ r.expiresAt > now}

\* C1 (as stated): token rotation. After a successful refreshTokens(t) the
\* presented token t is rejected by a later refreshTokens(t), the token the
\* call returned is in the store, and the user has no more valid refresh
\* tokens than before the call.
C1_TokenRotation ==
    [][RefreshOk =>
          /\ \A t \in issued : t = last'.req[1] => ~(refreshAccepts(t))'
          /\ \A t \in issued' : t = last'.token => (TokenStored(t))'
          /\ \A u \in users : u.id = last'.uid =>
                Cardinality((ValidRows(u.id))') <= Cardinality(ValidRows(u.id))
      ]_vars

AllDone == \A p \in Procs : procs[p].pc = "done"
Succeeded == {p \in Procs : procs[p].pc = "done" /\ procs[p].err = "none"}

\* C2 (as stated): of two refreshTokens calls presenting the same stored,
\* unexpired token, in any interleaving of their store steps, exactly one
\* succeeds, the other fails with AuthError, and exactly one new row has
\* been created when both have returned.
C2_ExactlyOneRefreshWins ==
    AllDone =>
        /\ Cardinality(Succeeded) = 1
        /\ \A p \in Procs \ Succeeded : procs[p].err = AuthError
        /\ nextId = 3

\* C3 (as stated): revocation by deletion. refreshTokens accepts a token
\* only while its row is in the RefreshToken store and unexpired, and a
\* token whose row a logout of its user has deleted, by logout(userId, t) or
\* by logout(userId), is refused with AuthError by every later refreshTokens.
C3_RevocationByDeletion ==
    [][last'.op = "refresh" =>
          /\ last'.err = "none" => TokenStored(last'.req[1])
          /\ last'.req[1] \in revoked => last'.err = AuthError
      ]_vars

Registered(email, phone) ==
    \E u \in users : u.email = email \/ (phone # Null /\ u.phone = phone)

\* C4: uniqueness. A register call whose email, or whose phone, belongs to
\* an existing user fails with ConflictError and leaves the User,
\* CustomerProfile, Salon, SalonMember, Staff and RefreshToken stores as
\* they were.
C4_Uniqueness ==
    [][(last'.op = "register" /\ Registered(last'.req[1], last'.req[2]))
          => (last'.err = ConflictError /\ UNCHANGED stores)]_vars

\* C4 witness: a registration was refused because its phone, and not its
\* email, belongs to a stored user.
C4_Witness ==
    /\ last.op = "register"
    /\ last.err = ConflictError
    /\ \E u \in users : u.phone = last.req[2]
    /\ \A u \in users : u.email # last.req[1]

OwnerRowsCreated ==
    \E u \in users' \ users :
        /\ u.role = "SALON_OWNER"
        /\ \E sid \in salons' \ salons :
            /\ \E m \in members' \ members :
                  m.userId = u.id /\ m.salonId = sid /\ m.role = "OWNER"
            /\ \E w \in staff' \ staff :
                  w.userId = u.id /\ w.salonId = sid /\ w.role = "OWNER"

NoOwnerRowCreated ==
    /\ users' = users
    /\ salons' = salons
    /\ members' = members
    /\ staff' = staff

\* C5: atomicity. After any register call with role SALON_OWNER, whichever
\* write of its transaction fails, either the user, the salon, the OWNER
\* membership and the OWNER staff record of that call all exist, or none of
\* them does.
C5_Atomicity ==
    [][(last'.op = "register" /\ last'.req[3] = "SALON_OWNER")
          => (OwnerRowsCreated \/ NoOwnerRowCreated)]_vars

\* C5 witness: a salon owner registration failed although it passed the
\* uniqueness and the policy checks, and another one had fully succeeded.
C5_Witness ==
    /\ last.op = "register"
    /\ last.req[3] = "SALON_OWNER"
    /\ last.msg = "Registration failed. Please try again."
    /\ \E u \in users :
        /\ u.role = "SALON_OWNER"
        /\ \E m \in members : m.userId = u.id
        /\ \E w \in staff : w.userId = u.id

\* C6 (as stated): every user whose role is SALON_OWNER has a salon with an
\* OWNER membership record for that user.
C6_OwnerHasSalon ==
    \A u \in users :
        u.role = "SALON_OWNER" =>
            \E m \in members : m.userId = u.id /\ m.role = "OWNER" /\ m.salonId \in salons

StaffOrAdminRegister == last'.op = "register" /\ last'.req[3] \in {"STAFF", "ADMIN"}

C8_NoSelfRegisteredStaff ==
    \A u \in users : u.role \notin {"STAFF", "ADMIN"}

WrongPassword(email, password) ==
    \A u \in users : u.email = email => ~bcryptCompare(password, u.password)

\* C9 (as stated): login with a password that does not match, for the email
\* of any stored user, active or deactivated, fails with the same AuthError
\* "Invalid credentials" as login with an email no user has.
C9_NoEnumeration ==
    [][(last'.op = "login" /\ WrongPassword(last'.req[1], last'.req[2]))
          => (last'.err = AuthError /\ last'.msg = "Invalid credentials")]_vars

TooMany == "Too many verification attempts. Please request a new code."

\* The record of the key that n or more verifyOTP calls have selected, that
\* is unexpired, and after which no newer code has been sent for the key.
CappedRecord(userId, phone, purpose, n) ==
    \E o \in otps :
        /\ o.userId = userId /\ o.phone = phone /\ o.purpose = purpose
        /\ otpCalls[OtpKey(o)] >= n
        /\ o.expiresAt >= now
        /\ \A q \in otps :
              (q.userId = userId /\ q.phone = phone /\ q.purpose = purpose)
                  => q.createdAt <= o.createdAt

\* C10: OTP attempt cap. Once 5 verifyOTP calls have been made for a record
\* while it was the active code, every later verifyOTP call for its key,
\* with the correct code or a wrong one, fails with AuthError "too many
\* attempts" and verifies nothing, while the record is unexpired and no
\* newer code has been sent.
C10_AttemptCap ==
    [][(last'.op = "verifyOTP" /\ CappedRecord(last'.uid, last'.req[1], last'.req[3], 5))
          => /\ last'.err = AuthError
             /\ last'.msg = TooMany
             /\ users' = users
             /\ \A o \in otps' : o.verified => o \in otps]_vars

\* C10 witness: a sixth call, presenting the correct code of a capped and
\* still unexpired record, was refused for too many attempts.
C10_Witness ==
    /\ last.op = "verifyOTP"
    /\ last.msg = TooMany
    /\ \E o \in otps :
        /\ o.userId = last.uid
        /\ o.otp = last.req[2]
        /\ otpCalls[OtpKey(o)] >= 6
        /\ o.expiresAt >= now
        /\ ~o.verified

\* The record verifyOTP selects for the key has been selected by exactly n
\* earlier verifyOTP calls and holds the code otp.
SelectedAfter(userId, phone, purpose, n, otp) ==
    /\ userId # 0
    /\ HasOtpRecord(userId, phone, purpose)
    /\ otpCalls[OtpKey(otpRecord(userId, phone, purpose))] = n
    /\ otpRecord(userId, phone, purpose).otp = otp

\* C11 (as stated): five verification attempts are allowed per code. After
\* four verifyOTP calls with wrong codes against the active record, a fifth
\* verifyOTP call presenting the correct code succeeds, marks the record
\* verified and sets the user's phone-verified flag.
C11_FifthAttemptSucceeds ==
    [][(last'.op = "verifyOTP"
          /\ SelectedAfter(last'.uid, last'.req[1], last'.req[3], 4, last'.req[2]))
          => /\ last'.err = "none"
             /\ \E o \in otps' : o.userId = last'.uid /\ o.otp = last'.req[2] /\ o.verified
             /\ \A u \in users' : u.id = last'.uid => u.isPhoneVerified]_vars

KeyRows(userId, phone, purpose) ==
    {o \in otps : o.userId = userId /\ o.phone = phone /\ o.purpose = purpose}

AllExpired(userId, phone, purpose) ==
    /\ KeyRows(userId, phone, purpose) # {}
    /\ \A o \in KeyRows(userId, phone, purpose) : o.expiresAt < now

\* C12: OTP expiry. A verifyOTP call made later than the expiry timestamp
\* (creation + 10 minutes) of every record of its (userId, phone, purpose)
\* fails with AuthError, marks no record verified and leaves the user's
\* phone-verified flag as it was, also when the presented code is the
\* stored one.
C12_ExpiredCodeRejected ==
    [][(last'.op = "verifyOTP" /\ AllExpired(last'.uid, last'.req[1], last'.req[3]))
          => /\ last'.err = AuthError
             /\ otps' = otps
             /\ users' = users]_vars

\* C12 witness: the correct code of an unverified record was presented after
\* the record's expiry and was refused.
C12_Witness ==
    /\ last.op = "verifyOTP"
    /\ last.err = AuthError
    /\ AllExpired(last.uid, last.req[1], last.req[3])
    /\ \E o \in KeyRows(last.uid, last.req[1], last.req[3]) :
          /\ o.otp = last.req[2]
          /\ ~o.verified
          /\ o.expiresAt = o.createdAt + OtpTtl
          /\ \E u \in users : u.id = last.uid /\ ~u.isPhoneVerified

RateLimited == "Please wait before requesting another OTP"

\* C13 (as stated): resend cooldown. A sendOTP call that follows, within the
\* same second, a sendOTP call for the same (userId, phone, purpose) that
\* dispatched a code fails with the rate-limit error, persists no OTP record
\* and dispatches no SMS, for callers that supply a userId and for callers
\* that supply none.
C13_ResendCooldown ==
    [][(/\ last.op = "sendOTP"
        /\ last.sms # Null
        /\ last'.op = "sendOTP"
        /\ last'.uid = last.uid
        /\ last'.req = last.req)
          => /\ last'.err = ValidationError
             /\ last'.msg = RateLimited
             /\ last'.sms = Null
             /\ otps' = otps]_vars

SendFailed == "Failed to send verification code"

\* C14 (as stated): when the SMS collaborator fails to dispatch, sendOTP
\* fails with the dependency error and the OTP row of that send is
\* nevertheless persisted; and an SMS is never dispatched for a code that
\* ends up with no persisted row.
C14_RowPersistedOnSmsFailure ==
    [][last'.op = "sendOTP" =>
          /\ (last'.msg = SendFailed /\ last'.sms = Null) =>
                \E o \in otps' \ otps : o.userId = last'.uid /\ o.createdAt = now
          /\ last'.sms # Null =>
                \E o \in otps' : o.userId = last'.uid /\ o.otp = last'.sms /\ o.createdAt = now
      ]_vars

\* The most recently created record of the key, whatever its state.
NewestRow(userId, phone, purpose) ==
    CHOOSE o \in KeyRows(userId, phone, purpose) :
        \A q \in KeyRows(userId, phone, purpose) : q.createdAt <= o.createdAt

\* C15 (as stated): one active code. A verifyOTP call succeeds only with the
\* code of the most recently created record of its (userId, phone, purpose):
\* once a newer code has been sent, the code of an older record is not
\* accepted, also after the newer record has been verified or locked out.
C15_OnlyNewestCodeAccepted ==
    [][(last'.op = "verifyOTP" /\ last'.err = "none")
          => /\ KeyRows(last'.uid, last'.req[1], last'.req[3]) # {}
             /\ NewestRow(last'.uid, last'.req[1], last'.req[3]).otp = last'.req[2]]_vars

\* C16 (as stated): the documented phone registration flow. sendOTP(phone,
\* registration) without userId succeeds when the SMS collaborator works,
\* and the verifyOTP(phone, code, registration) without userId that follows
\* it with the delivered code succeeds.
C16_PhoneFlowCompletes ==
    [][/\ (last'.op = "sendOTP" /\ last'.uid = RandomUuid /\ last'.sms # Null)
            => last'.err = "none"
       /\ (last'.op = "verifyOTP" /\ last'.uid = 0
             /\ last.op = "sendOTP" /\ last.sms = last'.req[2])
            => last'.err = "none"
      ]_vars

\* Users created by registerWithPhone: a phone and no password.
PhoneUsers == {u \in users : u.phone # Null /\ u.password = NoPassword}

\* C17 (as stated): phone possession is proven before phone registration. A
\* user created by registerWithPhone for phone p, with the phone-verified
\* flag set, exists only if a verifyOTP call for p succeeded earlier.
C17_PossessionBeforeRegistration ==
    \A u \in PhoneUsers : u.isPhoneVerified => u.phone \in verifiedPhones

OAuthOp(provider) == IF provider = "google" THEN "googleOAuth" ELSE "appleOAuth"

\* C18: idempotent OAuth linking. When findOrCreateOAuthUser has run with
\* claims (email, provider, providerId, avatar) for an email that already had
\* a user, the number of user rows is as before, and a second call with the
\* same claims succeeds, returns the same user and changes no field of any
\* user row.
C18_IdempotentLinking ==
    [][last'.op \in {"googleOAuth", "appleOAuth"} =>
       \A u \in users, p \in {"google", "apple"}, s \in ProviderIds, a \in Avatars :
          LET e == u.email
              first == findOrCreateOAuthUser(e, p, s, a)
              second == (findOrCreateOAuthUser(e, p, s, a))'
          IN (/\ last'.op = OAuthOp(p)
              /\ last'.req[1] = e
              /\ first.ok
              /\ users' = first.users)
                => /\ Cardinality(users') = Cardinality(users)
                   /\ second.ok
                   /\ ~second.created
                   /\ second.users = users'
                   /\ second.user = first.user]_vars

\* C18 witness: a Google sign-in has linked a user who had registered with a
\* password, filling the provider id and the email-verified flag.
C18_Witness ==
    /\ last.op = "googleOAuth"
    /\ last.err = "none"
    /\ \E u \in users :
          /\ u.id = last.uid
          /\ u.email = last.req[1]
          /\ u.password # NoPassword
          /\ u.googleId # Null
          /\ u.isEmailVerified

\* A user row as only the OAuth sign-in creates it: no password, no phone.
OAuthCreated(u) == u.password = NoPassword /\ u.phone = Null

ProfilesOf(u) == {p \in profiles : p = u.id}

\* C19: every user with role CUSTOMER has exactly one CustomerProfile row
\* (CustomerProfile.userId is unique), whether register, registerWithPhone or
\* an OAuth sign-in created the user, and every user created by an OAuth
\* sign-in has role CUSTOMER.
C19_CustomerHasOneProfile ==
    /\ \A u \in users : u.role = "CUSTOMER" => Cardinality(ProfilesOf(u)) = 1
    /\ \A u \in users : OAuthCreated(u) => u.role = "CUSTOMER"

\* C19 witness: two customers, one created by register and one by an OAuth
\* sign-in, each with its profile.
C19_Witness ==
    \E u1, u2 \in users :
        /\ u1.role = "CUSTOMER" /\ u1.password # NoPassword
        /\ OAuthCreated(u2)
        /\ Cardinality(ProfilesOf(u1)) = 1
        /\ Cardinality(ProfilesOf(u2)) = 1

\* C20: refreshTokens called with a correctly signed, stored and unexpired
\* refresh token whose user is inactive fails with the permission error
\* (ForbiddenException), not the authentication error, and leaves the
\* RefreshToken store unchanged.
C20_InactiveRefreshIsPermissionError ==
    [][\A t \in issued :
          (/\ last'.op = "refresh"
           /\ last'.req[1] = t
           /\ jwtVerify(t)
           /\ storedToken(t) # {}
           /\ \A r \in storedToken(t) : ~UserById(r.userId).isActive)
             => /\ last'.err = "ForbiddenException"
                /\ tokens' = tokens]_vars

\* C21: logout(userId, t) removes only the refresh-token row whose token is t
\* and whose owner is userId; every other row stays, and nothing is removed
\* when t belongs to another user. logout(userId) without a token removes
\* exactly the rows owned by userId.
C21_LogoutFrame ==
    [][last'.op = "logout" =>
          IF last'.req[2] # NoToken
          THEN tokens' = {r \in tokens : ~(r.userId = last'.req[1] /\ r.token = last'.req[2])}
          ELSE tokens' = {r \in tokens : r.userId # last'.req[1]}]_vars

\* C21 witness: a logout with a token has removed that token's row while
\* another row of the same user and a row of another user remain.
C21_Witness ==
    /\ last.op = "logout"
    /\ last.req[2] # NoToken
    /\ last.req[2].sub = last.req[1]
    /\ last.req[2] \in revoked
    /\ \A r \in tokens : r.token # last.req[2]
    /\ \E r1, r2 \in tokens : r1.userId = last.req[1] /\ r2.userId # last.req[1]

\* Both register requests passed the existence check and name the same email
\* or the same phone: neither check saw the other's user row.
RegisterRaced ==
    /\ \A p \in Procs : procs[p].passed
    /\ \/ procs[1].email = procs[2].email
       \/ (procs[1].phone # Null /\ procs[1].phone = procs[2].phone)

\* C22: of two register calls with the same email (or phone) whose existence
\* checks both ran before either user row was written, exactly one creates a
\* user and returns tokens, the other is rejected by the store's uniqueness
\* constraint and surfaces as ConflictError (ConflictException), and exactly
\* one user row with the email or phone exists afterwards.
C22_RegisterRaceConflict ==
    (AllDone /\ RegisterRaced) =>
        /\ \E w \in Procs :
              /\ procs[w].err = "none" /\ procs[w].tok # NoToken
              /\ \A l \in Procs \ {w} : procs[l].err = "ConflictException"
        /\ Cardinality({u \in users : u.email = procs[1].email \/ u.email = procs[2].email
                                      \/ (u.phone # Null /\ u.phone = procs[1].phone)}) = 1

\* A register call for an email and phone no user has.
FreshRegister == last'.op = "register" /\ ~Registered(last'.req[1], last'.req[2])

\* The registration policy let the call through: it succeeded, or it failed
\* later, in the transaction or the token issuance.
PolicyPermitted ==
    last'.err = "none" \/ last'.msg = "Registration failed. Please try again."

\* C23: registration policy for an email and phone not yet registered. Role
\* CUSTOMER is permitted with or without salonData; SALON_OWNER is permitted
\* exactly when salonData is supplied and otherwise fails with ValidationError
\* creating no row; STAFF and ADMIN fail with PermissionError; any other role
\* value fails with ValidationError.
C23_RegistrationPolicy ==
    [][FreshRegister =>
          CASE last'.req[3] = "CUSTOMER" -> PolicyPermitted
            [] last'.req[3] = "SALON_OWNER" ->
                  IF last'.req[4] THEN PolicyPermitted
                  ELSE /\ last'.err = ValidationError
                       /\ ~PolicyPermitted
                       /\ UNCHANGED stores
            [] last'.req[3] \in {"STAFF", "ADMIN"} ->
                  last'.err = PermissionError /\ UNCHANGED stores
            [] OTHER ->
                  last'.err = ValidationError /\ ~PolicyPermitted /\ UNCHANGED stores]_vars

\* C23 witness: a SALON_OWNER registration without salonData, for an email and
\* phone no user has, was refused with ValidationError while a user was stored.
C23_Witness ==
    /\ last.op = "register"
    /\ last.req[3] = "SALON_OWNER"
    /\ ~last.req[4]
    /\ last.err = ValidationError
    /\ last.msg = "Salon information is required for salon owner registration"
    /\ users # {}
    /\ ~Registered(last.req[1], last.req[2])

\* r is the record a verifyOTP call for (userId, phone, purpose) finds: the
\* newest unverified, unexpired record of the key.
FoundBy(r, userId, phone, purpose) ==
    /\ userId # 0
    /\ r.userId = userId /\ r.phone = phone /\ r.purpose = purpose
    /\ ~r.verified /\ r.expiresAt >= now
    /\ \A q \in otps :
          (q.userId = userId /\ q.phone = phone /\ q.purpose = purpose
             /\ ~q.verified /\ q.expiresAt >= now) => q.createdAt <= r.createdAt

\* C24: each verifyOTP call that finds an active record raises that record's
\* attempt counter by exactly one, whether the code is wrong, correct or
\* refused for too many attempts, and touches no other record; a call with a
\* wrong code fails with AuthError, leaves the record unverified and the user
\* rows unchanged. A first wrong code leaves the counter at 1.
C24_AttemptCounted ==
    [][last'.op = "verifyOTP" =>
          \A r \in otps :
              FoundBy(r, last'.uid, last'.req[1], last'.req[3]) =>
                  /\ \E q \in otps' :
                        /\ OtpKey(q) = OtpKey(r)
                        /\ q.attempts = r.attempts + 1
                        /\ q.otp = r.otp /\ q.expiresAt = r.expiresAt
                        /\ otps' \ {q} = otps \ {r}
                        /\ last'.req[2] # r.otp => ~q.verified
                  /\ last'.req[2] # r.otp => (last'.err = AuthError /\ users' = users)]_vars

\* C24 witness: a first wrong code was refused with AuthError and the record
\* it was tried against has attempt counter 1 and is unverified.
C24_Witness ==
    /\ last.op = "verifyOTP"
    /\ last.err = AuthError
    /\ last.msg = "Invalid verification code"
    /\ \E q \in otps :
          /\ q.userId = last.uid /\ q.phone = last.req[1] /\ q.purpose = last.req[3]
          /\ q.otp # last.req[2]
          /\ q.attempts = 1
          /\ ~q.verified
    /\ \A u \in users : ~u.isPhoneVerified

\* C25 (as stated): no operation issues a token pair for a deactivated
\* account. Whenever login, refreshTokens, googleOAuth or appleOAuth returns
\* tokens and persists a refresh-token row, the owning user is active.
C25_NoTokensForDeactivated ==
    [][(/\ last'.op \in {"login", "refresh", "googleOAuth", "appleOAuth"}
        /\ last'.err = "none"
        /\ \E r \in tokens' : r.token = last'.token /\ r.userId = last'.uid)
          => \A u \in users' : u.id = last'.uid => u.isActive]_vars

\* C26 (as stated): register is all-or-nothing towards its caller. Whenever
\* register returns an error, also when signing the tokens or persisting the
\* refresh token fails after the user transaction has committed, no user,
\* profile or salon row created by the call remains in the store.
C26_RegisterAllOrNothing ==
    [][(last'.op = "register" /\ last'.err # "none")
          => UNCHANGED <<users, profiles, salons, members, staff>>]_vars

\* C27 (as stated): every issuance produces a refresh token different from
\* every refresh token issued before, also when two issuances fall within the
\* same clock second; hence persisting the new row never collides with the
\* unique constraint on token and a refresh never returns the token it was
\* given.
C27_FreshTokenPerIssuance ==
    [][last'.op \in {"login", "refresh"} =>
          /\ (last'.err = "none" /\ last'.token # NoToken) => last'.token \notin issued
          /\ last'.op = "refresh" => last'.token # last'.req[1]
          /\ last'.msg # "Unique constraint failed"]_vars

\* The calls, earlier and concurrent, whose code was compared with the
\* stored code.
ComparedCalls == procs[1].prior + Cardinality({p \in Procs : procs[p].compared})

\* C28 (as stated): the OTP attempt cap cannot be exceeded by concurrent
\* calls. For verifyOTP calls on the same record whose reads and writes of
\* attempts interleave in any order, the stored attempt counter ends equal to
\* the number of calls that selected the record, and at most 4 calls in total
\* have their code compared with the stored code.
C28_ConcurrentAttemptCap ==
    /\ AllDone => \A o \in otps : o.attempts = otpCalls[OtpKey(o)]
    /\ ComparedCalls <= OtpMaxAttempts

\* C29 (as stated): global logout wins over a racing refresh. When
\* logout(userId) without a token and refreshTokens for a token of the same
\* user interleave in any order of their store steps, then once all have
\* completed no refresh-token row of the user remains, unless it was inserted
\* by a refresh that began after the logout's deletion.
C29_GlobalLogoutWins ==
    (AllDone /\ procs[LogoutProc].pc = "done") =>
        \A r \in tokens :
            r.userId = 1 =>
                \E p \in Procs \ procs[LogoutProc].began :
                    procs[p].err = "none" /\ procs[p].tok = r.token

ClientSettled == \A p \in Procs : procs[p].pc = "settled"

\* C30 (as stated): the client session survives simultaneous 401s. When two
\* in-flight requests are both answered 401 and the interceptor calls
\* refreshAccessToken for each with the same stored refresh token, then after
\* all calls have settled the AuthProvider holds the token pair of the
\* successful refresh, the user is not logged out, and each original request
\* has been retried at most once.
C30_SessionSurvives401s ==
    ClientSettled =>
        /\ procs[ClientProc].user = 1
        /\ procs[ClientProc].held # NoToken
        /\ \E r \in tokens : r.userId = 1 /\ r.token = procs[ClientProc].held
        /\ \A p \in Procs : procs[p].retries <= 1
====
